---- MODULE Spec2Model ----
(***************************************************************************)
(* A model of the AirPatrol API client (airpatrol/api.py).                 *)
(*                                                                         *)
(* The client is a request/response wrapper around an HTTP session owned   *)
(* by the caller.  Every coroutine of AirPatrolAPI is modelled as a task   *)
(* that runs from its invocation to its first await of the session, and    *)
(* from each response to the next await or to its completion.  The session *)
(* (the remote service) answers a request with any status and body of the  *)
(* vocabularies below.                                                     *)
(*                                                                         *)
(* Python values are tagged, so that a comparison of a str with an int or  *)
(* with None is False, as in Python: Str("7") differs from IntVal("7").    *)
(* A dict is a function on the keys it holds; a list is a sequence.        *)
(***************************************************************************)
EXTENDS Integers, Sequences, FiniteSets, TLC

VARIABLES
    constructed,     \* whether an AirPatrolAPI instance exists
    access_token,    \* AirPatrolAPI._access_token
    user_id,         \* AirPatrolAPI._user_id
    pairings_cache,  \* AirPatrolAPI._pairings_cache
    pc,              \* per task: "idle", or the request whose response it awaits
    frame,           \* per task: the locals of the running invocation
    last,            \* the most recent completed invocation, as its caller saw it
    prev,            \* the invocation completed before last: its name, whether it
                     \* returned, and the number of requests it issued
    gen              \* flips whenever an invocation completes

vars == <<constructed, access_token, user_id, pairings_cache, pc, frame, last, prev, gen>>

client == <<constructed, access_token, user_id, pairings_cache>>

-----------------------------------------------------------------------------
(* Python values *)

None == [t |-> "none", v |-> ""]
Str(s) == [t |-> "str", v |-> s]
IntVal(s) == [t |-> "int", v |-> s]

isinstance_str(x) == x.t = "str"

\* dict.get(key): the value, or None when the key is absent
Get(d, key) == IF key \in DOMAIN d THEN d[key] ELSE None

\* dict.get(key, default)
GetOr(d, key, default) == IF key \in DOMAIN d THEN d[key] ELSE default

\* the {} that get_devices passes as the default of a missing container
EmptyDict == <<>>

\* type(x).__name__
TypeName(x) == IF x.t = "none" THEN "NoneType" ELSE x.t

\* f"{x}" of a str or of None
Format(x) == IF x = None THEN "None" ELSE x.v

\* str.upper() on the device types of the vocabulary
\* variant: the type is not upper-cased
UpperIdentity(s) == s

Upper(s) ==
    CASE s = "apw" -> "APW"
      [] s = "Aph" -> "APH"
      [] s = "APC" -> "APC"
      [] s = "Unknown" -> "UNKNOWN"
      [] OTHER -> s

-----------------------------------------------------------------------------
(* const.py *)

AUTH_BASE_URL == "https://auth.apsrvd.io/v1"
AUTH_LOGIN_ENDPOINT == "/login"
AUTH_PAIRINGS_ENDPOINT == "/pairings"
API_VERSION == "12"
API_BASE_URL == "https://api.apsrvd.io/" \o API_VERSION
API_COMMAND_ENDPOINT == "/command"

-----------------------------------------------------------------------------
(* Outcomes of an invocation, and requests *)

Return(value) == [kind |-> "return", value |-> value]
Raise(exc, msg) == [kind |-> "raise", exc |-> exc, msg |-> msg]

AirPatrolAuthenticationError(msg) == Raise("AirPatrolAuthenticationError", msg)
AirPatrolError(msg) == Raise("AirPatrolError", msg)

\* session.get(url, **kwargs) / session.post(url, **kwargs)
Request(method, url, kwargs) == [method |-> method, url |-> url, kwargs |-> kwargs]

Response(status, json) == [status |-> status, json |-> json]

Tasks == {"caller", "other"}

IdleFrame ==
    [op |-> "", args |-> <<>>, cache_at_call |-> None, sent |-> <<>>,
     received |-> <<>>, devices |-> <<>>, idx |-> 0, units |-> <<>>]

NoEntry ==
    [op |-> "", args |-> <<>>, cache_at_call |-> None, sent |-> <<>>,
     received |-> <<>>, outcome |-> Return(None)]

NoPrev == [op |-> "", ok |-> TRUE, nreq |-> 0]

Init ==
    /\ constructed = FALSE
    /\ access_token = None
    /\ user_id = None
    /\ pairings_cache = None
    /\ pc = [t \in Tasks |-> "idle"]
    /\ frame = [t \in Tasks |-> IdleFrame]
    /\ last = NoEntry
    /\ prev = NoPrev
    /\ gen = FALSE

\* An invocation starts: its name, arguments and the cache it finds.
Enter(op, args) ==
    [IdleFrame EXCEPT !.op = op, !.args = args, !.cache_at_call = pairings_cache]

\* The invocation of task t, whose locals are f, ends with outcome.
Finish(t, f, outcome) ==
    /\ last' = [op |-> f.op, args |-> f.args, cache_at_call |-> f.cache_at_call,
                sent |-> f.sent, received |-> f.received, outcome |-> outcome]
    /\ prev' = [op |-> last.op, ok |-> last.outcome.kind = "return",
                nreq |-> Len(last.sent)]
    /\ gen' = ~gen
    /\ pc' = [pc EXCEPT ![t] = "idle"]
    /\ frame' = [frame EXCEPT ![t] = IdleFrame]

\* The invocation of task t, whose locals are f, awaits the response to req.
Await(t, f, what, req) ==
    /\ pc' = [pc EXCEPT ![t] = what]
    /\ frame' = [frame EXCEPT ![t] = [f EXCEPT !.sent = Append(f.sent, req)]]
    /\ UNCHANGED <<last, prev, gen>>

Idle(t) == pc[t] = "idle"

-----------------------------------------------------------------------------
(* AirPatrolAPI.__init__ *)

Construct(t, token, uid) ==
    /\ ~constructed
    /\ Idle(t)
    /\ constructed' = TRUE
    /\ access_token' = token
    /\ user_id' = uid
    /\ pairings_cache' = None
    /\ Finish(t, Enter("__init__", <<token, uid>>), Return(None))

-----------------------------------------------------------------------------
(* AirPatrolAPI.authenticate *)

\* data["entities"]["users"]["list"][0]["id"] and data["misc"]["accessToken"],
\* in the order the code evaluates them
\* variant: the id is taken from the last entry of the list
LoginExtractLastUser(data) ==
    IF "entities" \notin DOMAIN data THEN Raise("KeyError", "'entities'")
    ELSE IF "users" \notin DOMAIN data.entities THEN Raise("KeyError", "'users'")
    ELSE IF "list" \notin DOMAIN data.entities.users THEN Raise("KeyError", "'list'")
    ELSE IF Len(data.entities.users.list) = 0
         THEN Raise("IndexError", "list index out of range")
    ELSE IF "misc" \notin DOMAIN data THEN Raise("KeyError", "'misc'")
    ELSE Return([access_token |-> data.misc.accessToken,
                 user_id |-> data.entities.users.list[Len(data.entities.users.list)].id,
                 pairings_cache |-> None])

LoginExtract(data) ==
    IF "entities" \notin DOMAIN data THEN Raise("KeyError", "'entities'")
    ELSE IF "users" \notin DOMAIN data.entities THEN Raise("KeyError", "'users'")
    ELSE IF "list" \notin DOMAIN data.entities.users THEN Raise("KeyError", "'list'")
    ELSE IF Len(data.entities.users.list) = 0
         THEN Raise("IndexError", "list index out of range")
    ELSE IF "id" \notin DOMAIN data.entities.users.list[1] THEN Raise("KeyError", "'id'")
    ELSE IF "misc" \notin DOMAIN data THEN Raise("KeyError", "'misc'")
    ELSE IF "accessToken" \notin DOMAIN data.misc THEN Raise("KeyError", "'accessToken'")
    ELSE Return([access_token |-> data.misc.accessToken,
                 user_id |-> data.entities.users.list[1].id,
                 pairings_cache |-> None])

\* variant: the status field of a 200 body is not looked at
AuthenticateOutcomeNoStatusCheck(resp) ==
    IF resp.status # 200
    THEN AirPatrolAuthenticationError("Authentication failed")
    ELSE LoginExtract(resp.json)

AuthenticateOutcome(resp) ==
    IF resp.status # 200
    THEN AirPatrolAuthenticationError("Authentication failed")
    ELSE IF Get(resp.json, "status") = Str("ok")
         THEN LoginExtract(resp.json)
         ELSE AirPatrolAuthenticationError("Authentication failed")

AuthenticateCall(t, email, password) ==
    /\ ~constructed
    /\ Idle(t)
    /\ Await(t, Enter("authenticate", <<Str(email), Str(password)>>), "login",
             Request("POST", AUTH_BASE_URL \o AUTH_LOGIN_ENDPOINT,
                     [json |-> [email |-> Str(email), password |-> Str(password)]]))
    /\ UNCHANGED client

AuthenticateResp(t, resp) ==
    /\ pc[t] = "login"
    /\ LET f == [frame[t] EXCEPT !.received = Append(@, resp)]
           outcome == AuthenticateOutcome(resp)
       IN  /\ Finish(t, f, outcome)
           /\ IF outcome.kind = "return"
              THEN /\ constructed' = TRUE
                   /\ access_token' = outcome.value.access_token
                   /\ user_id' = outcome.value.user_id
                   /\ pairings_cache' = outcome.value.pairings_cache
              ELSE UNCHANGED client

-----------------------------------------------------------------------------
(* AirPatrolAPI.get_unique_id and get_access_token *)

\* variant: the stored user id is returned without the test for None
GetUniqueIdOutcomeUnchecked == Return(user_id)

GetUniqueIdOutcome ==
    IF user_id = None THEN Raise("ValueError", "Not authenticated") ELSE Return(user_id)

GetUniqueId(t) ==
    /\ constructed
    /\ Idle(t)
    /\ Finish(t, Enter("get_unique_id", <<>>), GetUniqueIdOutcome)
    /\ UNCHANGED client

GetAccessToken(t) ==
    /\ constructed
    /\ Idle(t)
    /\ Finish(t, Enter("get_access_token", <<>>), Return(access_token))
    /\ UNCHANGED client

-----------------------------------------------------------------------------
(* AirPatrolAPI.clear_pairings_cache *)

ClearPairingsCache(t) ==
    /\ constructed
    /\ Idle(t)
    /\ pairings_cache' = None
    /\ Finish(t, Enter("clear_pairings_cache", <<>>), Return(None))
    /\ UNCHANGED <<constructed, access_token, user_id>>

-----------------------------------------------------------------------------
(* AirPatrolAPI.get_devices: the pairings of the user in a discovery document *)

\* data.get("entities", {}).get(section, {}).get("list", [])
EntityList(data, section) ==
    GetOr(GetOr(GetOr(data, "entities", EmptyDict), section, EmptyDict), "list", <<>>)

\* variant: the scan does not break, and the last pairing of the id is taken
RECURSIVE FindPairingLast(_, _, _)
FindPairingLast(pairings, pairing_id, k) ==
    IF k > Len(pairings) THEN <<>>
    ELSE LET later == FindPairingLast(pairings, pairing_id, k + 1)
         IN  IF later # <<>> THEN later
             ELSE IF Get(pairings[k], "id") = pairing_id THEN <<pairings[k]>>
             ELSE <<>>

\* for pairing in pairings: if pairing.get("id") == pairing_id: append; break
RECURSIVE FindPairing(_, _, _)
FindPairing(pairings, pairing_id, k) ==
    IF k > Len(pairings) THEN <<>>
    ELSE IF Get(pairings[k], "id") = pairing_id THEN <<pairings[k]>>
    ELSE FindPairing(pairings, pairing_id, k + 1)

\* variant: the entries are not filtered by userId
RECURSIVE UserPairingsFromAnyUser(_, _, _)
UserPairingsFromAnyUser(data, uid, i) ==
    LET pairing_users == EntityList(data, "pairingUser")
    IN  IF i > Len(pairing_users) THEN <<>>
        ELSE FindPairing(EntityList(data, "pairings"),
                         Get(pairing_users[i], "pairingId"), 1)
             \o UserPairingsFromAnyUser(data, uid, i + 1)

RECURSIVE UserPairingsFrom(_, _, _)
UserPairingsFrom(data, uid, i) ==
    LET pairing_users == EntityList(data, "pairingUser")
    IN  IF i > Len(pairing_users) THEN <<>>
        ELSE IF Get(pairing_users[i], "userId") = uid
             THEN FindPairing(EntityList(data, "pairings"),
                              Get(pairing_users[i], "pairingId"), 1)
                  \o UserPairingsFrom(data, uid, i + 1)
             ELSE UserPairingsFrom(data, uid, i + 1)

UserPairings(data, uid) == UserPairingsFrom(data, uid, 1)

-----------------------------------------------------------------------------
(* Requests and the classification of their responses *)

BearerHeader == "Bearer " \o Format(access_token)

PairingsRequest ==
    Request("GET", AUTH_BASE_URL \o AUTH_PAIRINGS_ENDPOINT,
            [headers |-> [Authorization |-> BearerHeader]])

CommandHeaders(unit_id) ==
    ("Authorization" :> BearerHeader) @@ ("X-Pairing-Id" :> unit_id.v)

ClimateRequest(unit_id) ==
    Request("GET", API_BASE_URL \o API_COMMAND_ENDPOINT,
            [headers |-> CommandHeaders(unit_id)])

\* variant: the payload is sent inside an envelope
SetClimateRequestWrapped(unit_id, climate_data) ==
    Request("POST", API_BASE_URL \o API_COMMAND_ENDPOINT,
            [headers |-> CommandHeaders(unit_id),
             json |-> [ParametersData |-> climate_data]])

SetClimateRequest(unit_id, climate_data) ==
    Request("POST", API_BASE_URL \o API_COMMAND_ENDPOINT,
            [headers |-> CommandHeaders(unit_id), json |-> climate_data])

\* variant: a 403 is not taken as an authentication failure
GetPairingsOutcomeOnly401(resp) ==
    IF resp.status = 401
    THEN AirPatrolAuthenticationError("Failed to fetch pairings")
    ELSE IF resp.status = 200
         THEN IF Get(resp.json, "status") # Str("ok")
              THEN AirPatrolError("API returned error status")
              ELSE Return(resp.json)
         ELSE AirPatrolError("Failed to fetch pairings: " \o ToString(resp.status))

GetPairingsOutcome(resp) ==
    IF resp.status \in {401, 403}
    THEN AirPatrolAuthenticationError("Failed to fetch pairings")
    ELSE IF resp.status = 200
         THEN IF Get(resp.json, "status") # Str("ok")
              THEN AirPatrolError("API returned error status")
              ELSE Return(resp.json)
         ELSE AirPatrolError("Failed to fetch pairings: " \o ToString(resp.status))

\* variant: the status field of a 200 body is required to be "ok", as for pairings
ClimateOutcomeStatusChecked(resp, what) ==
    IF resp.status \in {401, 403}
    THEN AirPatrolAuthenticationError("Failed to " \o what \o " climate data")
    ELSE IF resp.status = 200
         THEN IF Get(resp.json, "status") # Str("ok")
              THEN AirPatrolError("API returned error status")
              ELSE Return(resp.json)
         ELSE AirPatrolError("Failed to " \o what \o " climate data: "
                             \o ToString(resp.status))

\* get_unit_climate_data (what = "fetch") and set_unit_climate_data (what = "set")
ClimateOutcome(resp, what) ==
    IF resp.status \in {401, 403}
    THEN AirPatrolAuthenticationError("Failed to " \o what \o " climate data")
    ELSE IF resp.status = 200
         THEN Return(resp.json)
         ELSE AirPatrolError("Failed to " \o what \o " climate data: "
                             \o ToString(resp.status))

-----------------------------------------------------------------------------
(* AirPatrolAPI.get_data: the snapshot of one device *)

UnitData(device, climate_data) ==
    LET unit_id == Get(device, "id")
        name == GetOr(device, "name", Str("AirPatrol Device " \o unit_id.v))
        type == GetOr(device, "type", Str("Unknown"))
    IN  IF ~isinstance_str(type)
        THEN Raise("AttributeError",
                   "'" \o TypeName(type) \o "' object has no attribute 'upper'")
        ELSE Return([unit_id |-> unit_id,
                     name |-> name,
                     model |-> Str("AirPatrol " \o Upper(type.v)),
                     manufacturer |-> Str("AirPatrol"),
                     hwid |-> Get(device, "hwid"),
                     type |-> Get(device, "type"),
                     app_id |-> Get(device, "appId"),
                     climate |-> climate_data])

\* the first index from i on of a device whose id is a str: the devices before it
\* are skipped by the loop's continue
RECURSIVE NextUnit(_, _)
NextUnit(devices, i) ==
    IF i > Len(devices) THEN i
    ELSE IF isinstance_str(Get(devices[i], "id")) THEN i
    ELSE NextUnit(devices, i + 1)

\* The loop of get_data from device i on, with the snapshots built so far.
DataLoop(t, f, i, units) ==
    LET j == NextUnit(f.devices, i)
    IN  IF j > Len(f.devices)
        THEN Finish(t, f, Return(units))
        ELSE Await(t, [f EXCEPT !.idx = j, !.units = units], "climate",
                   ClimateRequest(Get(f.devices[j], "id")))

-----------------------------------------------------------------------------
(* AirPatrolAPI.get_pairings, and get_devices and get_data, which start with it *)

PairingOps == {"get_pairings", "get_devices", "get_data", "get_units"}

\* What follows the return of get_pairings in the invocation f.op.
WithPairings(t, f, data) ==
    IF f.op = "get_pairings"
    THEN Finish(t, f, Return(data))
    ELSE IF f.op = "get_devices"
         THEN Finish(t, f, Return(UserPairings(data, user_id)))
         ELSE DataLoop(t, [f EXCEPT !.devices = UserPairings(data, user_id)], 1, <<>>)

\* variant: the cache is never consulted
GetPairingsCallNoCache(t, op) ==
    /\ constructed
    /\ Idle(t)
    /\ op \in PairingOps
    /\ Await(t, Enter(op, <<>>), "pairings", PairingsRequest)
    /\ UNCHANGED client

GetPairingsCall(t, op) ==
    /\ constructed
    /\ Idle(t)
    /\ op \in PairingOps
    /\ IF pairings_cache # None
       THEN WithPairings(t, Enter(op, <<>>), pairings_cache)
       ELSE Await(t, Enter(op, <<>>), "pairings", PairingsRequest)
    /\ UNCHANGED client

\* variant: the body of a 200 is stored before its status field is looked at
GetPairingsRespStoreFirst(t, resp) ==
    /\ pc[t] = "pairings"
    /\ LET f == [frame[t] EXCEPT !.received = Append(@, resp)]
           outcome == GetPairingsOutcome(resp)
       IN  IF outcome.kind = "raise"
           THEN /\ Finish(t, f, outcome)
                /\ pairings_cache' = IF resp.status = 200 THEN resp.json ELSE pairings_cache
                /\ UNCHANGED <<constructed, access_token, user_id>>
           ELSE /\ pairings_cache' = outcome.value
                /\ WithPairings(t, f, outcome.value)
                /\ UNCHANGED <<constructed, access_token, user_id>>

\* variant: a fetch that failed is tried once more
GetPairingsRespRetry(t, resp) ==
    /\ pc[t] = "pairings"
    /\ LET f == [frame[t] EXCEPT !.received = Append(@, resp)]
           outcome == GetPairingsOutcome(resp)
       IN  IF outcome.kind = "raise"
           THEN IF Len(f.sent) < 2
                THEN /\ Await(t, f, "pairings", PairingsRequest)
                     /\ UNCHANGED client
                ELSE /\ Finish(t, f, outcome)
                     /\ UNCHANGED client
           ELSE /\ pairings_cache' = outcome.value
                /\ WithPairings(t, f, outcome.value)
                /\ UNCHANGED <<constructed, access_token, user_id>>

\* variant: a fetch that finds the cache filled meanwhile keeps and returns it
GetPairingsRespFirstStoreWins(t, resp) ==
    /\ pc[t] = "pairings"
    /\ LET f == [frame[t] EXCEPT !.received = Append(@, resp)]
           outcome == GetPairingsOutcome(resp)
           kept == IF pairings_cache # None THEN pairings_cache ELSE outcome.value
       IN  IF outcome.kind = "raise"
           THEN /\ Finish(t, f, outcome)
                /\ UNCHANGED client
           ELSE /\ pairings_cache' = kept
                /\ WithPairings(t, f, kept)
                /\ UNCHANGED <<constructed, access_token, user_id>>

GetPairingsResp(t, resp) ==
    /\ pc[t] = "pairings"
    /\ LET f == [frame[t] EXCEPT !.received = Append(@, resp)]
           outcome == GetPairingsOutcome(resp)
       IN  IF outcome.kind = "raise"
           THEN /\ Finish(t, f, outcome)
                /\ UNCHANGED client
           ELSE /\ pairings_cache' = outcome.value
                /\ WithPairings(t, f, outcome.value)
                /\ UNCHANGED <<constructed, access_token, user_id>>

-----------------------------------------------------------------------------
(* AirPatrolAPI.get_unit_climate_data and set_unit_climate_data *)

GetUnitClimateDataCall(t, unit_id) ==
    /\ constructed
    /\ Idle(t)
    /\ Await(t, Enter("get_unit_climate_data", <<unit_id>>), "climate",
             ClimateRequest(unit_id))
    /\ UNCHANGED client

\* variant: get_data skips a device whose climate read failed and goes on
ClimateRespIsolated(t, resp) ==
    /\ pc[t] = "climate"
    /\ LET f == [frame[t] EXCEPT !.received = Append(@, resp)]
           outcome == ClimateOutcome(resp, "fetch")
       IN  IF f.op = "get_unit_climate_data"
           THEN Finish(t, f, outcome)
           ELSE IF outcome.kind = "raise"
                THEN DataLoop(t, f, f.idx + 1, f.units)
                ELSE LET unit_data == UnitData(f.devices[f.idx], outcome.value)
                     IN  IF unit_data.kind = "raise"
                         THEN Finish(t, f, unit_data)
                         ELSE DataLoop(t, f, f.idx + 1, Append(f.units, unit_data.value))
    /\ UNCHANGED client

\* The response to a climate read, of get_unit_climate_data or within get_data.
ClimateResp(t, resp) ==
    /\ pc[t] = "climate"
    /\ LET f == [frame[t] EXCEPT !.received = Append(@, resp)]
           outcome == ClimateOutcome(resp, "fetch")
       IN  IF f.op = "get_unit_climate_data" \/ outcome.kind = "raise"
           THEN Finish(t, f, outcome)
           ELSE LET unit_data == UnitData(f.devices[f.idx], outcome.value)
                IN  IF unit_data.kind = "raise"
                    THEN Finish(t, f, unit_data)
                    ELSE DataLoop(t, f, f.idx + 1, Append(f.units, unit_data.value))
    /\ UNCHANGED client

SetUnitClimateDataCall(t, unit_id, climate_data) ==
    /\ constructed
    /\ Idle(t)
    /\ Await(t, Enter("set_unit_climate_data", <<unit_id, climate_data>>), "command",
             SetClimateRequest(unit_id, climate_data))
    /\ UNCHANGED client

SetUnitClimateDataResp(t, resp) ==
    /\ pc[t] = "command"
    /\ Finish(t, [frame[t] EXCEPT !.received = Append(@, resp)],
              ClimateOutcome(resp, "set"))
    /\ UNCHANGED client

-----------------------------------------------------------------------------
(* The vocabularies the caller and the remote service draw from *)

Statuses == {200, 204, 401, 403, 500}

Constructions == {<<Str("tokA"), Str("u1")>>, <<Str("tokA"), None>>, <<None, Str("u2")>>}

Emails == {"test@example.com"}
Passwords == {"password"}

LoginOk ==
    [status |-> Str("ok"),
     entities |-> [users |-> [list |-> <<[id |-> Str("u1")], [id |-> Str("u2")]>>]],
     misc |-> [accessToken |-> Str("tokB")]]
LoginNoUsers ==
    [status |-> Str("ok"),
     entities |-> [users |-> [list |-> <<>>]],
     misc |-> [accessToken |-> Str("tokB")]]
LoginError == [status |-> Str("error"), errors |-> <<Str("Invalid credentials")>>]
LoginNoStatus == [misc |-> [accessToken |-> Str("tokB")]]

LoginBodies == {LoginOk, LoginNoUsers, LoginError, LoginNoStatus}

Dev1 ==
    [id |-> Str("p1"), name |-> Str("Living"), type |-> Str("apw"),
     hwid |-> Str("HW1"), appId |-> Str("app1")]
Dev2 == [id |-> Str("p2")]
Dev7 == [id |-> IntVal("7"), name |-> Str("Attic"), type |-> Str("Aph")]
Dev1Dup == [id |-> Str("p1"), name |-> Str("Dup"), type |-> Str("APC")]
Dev3 == [id |-> Str("p3"), type |-> None]
Dev4 == [id |-> Str("p4"), name |-> None, type |-> Str("Aph")]

PairingUser(uid, pairing_id) == [userId |-> uid, pairingId |-> pairing_id]

Discovery(pairing_users, pairings) ==
    [status |-> Str("ok"),
     entities |-> [pairingUser |-> [list |-> pairing_users],
                   pairings |-> [list |-> pairings]]]

DocHome ==
    Discovery(<<PairingUser(Str("u1"), Str("p1")), PairingUser(Str("u2"), Str("p2")),
                PairingUser(Str("u1"), IntVal("7")), PairingUser(Str("u1"), Str("p2"))>>,
              <<Dev1, Dev7, Dev2, Dev1Dup>>)
DocOther ==
    Discovery(<<PairingUser(Str("u2"), Str("p4")), [pairingId |-> Str("p2")]>>,
              <<Dev4, Dev2>>)
DocNullType ==
    Discovery(<<PairingUser(Str("u1"), Str("p3")), PairingUser(Str("u1"), Str("p1")),
                PairingUser(Str("u1"), Str("p9"))>>,
              <<Dev3, Dev1>>)
DocBare == [status |-> Str("ok"), errors |-> <<>>]
DocError == [status |-> Str("error"), errors |-> <<Str("Invalid token")>>]
DocNoStatus == [errors |-> <<>>]

PairingsBodies == {DocHome, DocOther, DocNullType, DocBare, DocError, DocNoStatus}

ClimateOn ==
    [ParametersData |-> [PumpPower |-> Str("on"), PumpTemp |-> Str("16.000")],
     RoomTemp |-> Str("27.517")]
ClimateErrorStatus == [status |-> Str("error")]

ClimateBodies == {ClimateOn, ClimateErrorStatus}

UnitIds == {Str("p1"), Str("p2")}

Payloads ==
    {[ParametersData |-> [PumpPower |-> Str("on"), PumpTemp |-> Str("25.000")]],
     [foo |-> Str("bar")]}

\* The responses of the session: a 200 with any body, and every other status
\* with the body first, so that the status alone is seen to decide.
Responses(bodies, first) ==
    {Response(200, b) : b \in bodies} \cup {Response(s, first) : s \in Statuses \ {200}}

-----------------------------------------------------------------------------
(* One caller, which awaits each invocation before it makes the next *)

Callers == {"caller"}

Next ==
    \/ \E t \in Callers, c \in Constructions : Construct(t, c[1], c[2])
    \/ \E t \in Callers, e \in Emails, p \in Passwords : AuthenticateCall(t, e, p)
    \/ \E t \in Callers, r \in Responses(LoginBodies, LoginOk) : AuthenticateResp(t, r)
    \/ \E t \in Callers : GetUniqueId(t)
    \/ \E t \in Callers : GetAccessToken(t)
    \/ \E t \in Callers : ClearPairingsCache(t)
    \/ \E t \in Callers, op \in PairingOps : GetPairingsCall(t, op)
    \/ \E t \in Callers, r \in Responses(PairingsBodies, DocHome) : GetPairingsResp(t, r)
    \/ \E t \in Callers, u \in UnitIds : GetUnitClimateDataCall(t, u)
    \/ \E t \in Callers, r \in Responses(ClimateBodies, ClimateOn) : ClimateResp(t, r)
    \/ \E t \in Callers, u \in UnitIds, d \in Payloads : SetUnitClimateDataCall(t, u, d)
    \/ \E t \in Callers, r \in Responses(ClimateBodies, ClimateOn) :
            SetUnitClimateDataResp(t, r)

Spec == Init /\ [][Next]_vars

-----------------------------------------------------------------------------
(* get_devices over every discovery document of a bounded shape *)

MaxEntries == 2
MaxPairings == 2

SeqsUpTo(S, n) == UNION {[1..k -> S] : k \in 0..n}

\* pairingUser entries: of the user, of another user, of no user, of no pairing;
\* and pairing ids of either type
WideEntries ==
    {PairingUser(Str("u1"), Str("7")), PairingUser(Str("u1"), IntVal("7")),
     PairingUser(Str("u2"), Str("7")), [pairingId |-> Str("7")], [userId |-> Str("u1")]}

\* pairings: two of one id, one whose id differs in type only, and one without an id
WidePairings ==
    {[id |-> Str("7"), name |-> Str("A")], [id |-> Str("7"), name |-> Str("B")],
     [id |-> IntVal("7"), name |-> Str("C")], [name |-> Str("D")]}

WideDocs ==
    {Discovery(pu, ps) : pu \in SeqsUpTo(WideEntries, MaxEntries),
                         ps \in SeqsUpTo(WidePairings, MaxPairings)}

NextDevices ==
    \/ \E t \in Callers, c \in Constructions : Construct(t, c[1], c[2])
    \/ \E t \in Callers : GetPairingsCall(t, "get_devices")
    \/ \E t \in Callers, d \in WideDocs : GetPairingsResp(t, Response(200, d))

SpecDevices == Init /\ [][NextDevices]_vars

-----------------------------------------------------------------------------
(* Two tasks of one event loop call get_pairings on the same client; a task
   runs from one await to the next without interruption *)

NextConcurrent ==
    \/ \E t \in Tasks, c \in Constructions : Construct(t, c[1], c[2])
    \/ \E t \in Tasks : GetPairingsCall(t, "get_pairings")
    \/ \E t \in Tasks, r \in Responses(PairingsBodies, DocHome) : GetPairingsResp(t, r)

SpecConcurrent == Init /\ [][NextConcurrent]_vars

-----------------------------------------------------------------------------
(* Properties *)

\* This step completes an invocation of op.
Completes(op) == gen' # gen /\ last'.op = op

Returned(entry) == entry.outcome.kind = "return"

StatusOk(json) == Get(json, "status") = Str("ok")

\* The invocation entry found the cache null and fetched the document.
FetchedPairings(entry) ==
    /\ entry.op = "get_pairings"
    /\ entry.cache_at_call = None
    /\ Returned(entry)

\* C1: on a client whose cache is null, of two consecutive get_pairings whose
\* first succeeds, the two issue one request in total and the second returns the
\* document of the first; a get_pairings that follows a clear_pairings_cache
\* that followed a successful get_pairings issues a request of its own.
PairingsCachedUntilCleared ==
    [][ /\ (FetchedPairings(last) /\ Completes("get_pairings"))
            => /\ Len(last.sent) + Len(last'.sent) = 1
               /\ last'.outcome = last.outcome
        /\ (prev.op = "get_pairings" /\ prev.ok /\ last.op = "clear_pairings_cache"
            /\ Completes("get_pairings"))
            => /\ last'.sent = <<PairingsRequest>>
               /\ Len(last'.received) = 1
      ]_vars

\* a second get_pairings answered from the cache the first one filled
PairingsCacheHitReached ==
    /\ prev.op = "get_pairings" /\ prev.ok /\ prev.nreq = 1
    /\ last.op = "get_pairings" /\ last.sent = <<>>
    /\ Returned(last) /\ last.outcome.value = DocHome

\* C2: a get_pairings that finds the cache null gets one response, and its
\* outcome is decided by the status (and, for 200, the body's status) alone:
\* 401/403, 200 not ok, 200 ok, and anything else.
PairingsResponseClassified ==
    (last.op = "get_pairings" /\ last.cache_at_call = None) =>
        /\ Len(last.received) = 1
        /\ LET r == last.received[1]
           IN  /\ r.status \in {401, 403} =>
                     last.outcome = Raise("AirPatrolAuthenticationError",
                                          "Failed to fetch pairings")
               /\ (r.status = 200 /\ ~StatusOk(r.json)) =>
                     last.outcome = Raise("AirPatrolError", "API returned error status")
               /\ (r.status = 200 /\ StatusOk(r.json)) => last.outcome = Return(r.json)
               /\ r.status \notin {200, 401, 403} =>
                     last.outcome = Raise("AirPatrolError",
                                          "Failed to fetch pairings: " \o ToString(r.status))

\* a 403 answered with the authentication error, though its body is an ok document
PairingsForbiddenReached ==
    /\ last.op = "get_pairings" /\ last.cache_at_call = None
    /\ last.received = <<Response(403, DocHome)>>
    /\ last.outcome.kind = "raise"

\* C3: get_unit_climate_data and set_unit_climate_data fail with the
\* authentication error on 401/403, with the API error carrying the status on a
\* status outside {200, 401, 403}, and return a 200's body as it is, whatever
\* status field the body holds.
ClimateResponseClassified ==
    (last.op \in {"get_unit_climate_data", "set_unit_climate_data"}) =>
        /\ Len(last.received) = 1
        /\ LET r == last.received[1]
               verb == IF last.op = "get_unit_climate_data" THEN "fetch" ELSE "set"
           IN  /\ r.status \in {401, 403} =>
                     last.outcome = Raise("AirPatrolAuthenticationError",
                                          "Failed to " \o verb \o " climate data")
               /\ r.status \notin {200, 401, 403} =>
                     last.outcome = Raise("AirPatrolError",
                                          "Failed to " \o verb \o " climate data: "
                                          \o ToString(r.status))
               /\ r.status = 200 => last.outcome = Return(r.json)

\* a 200 whose body says status "error" is returned by set_unit_climate_data
ClimateErrorBodyReturnedReached ==
    /\ last.op = "set_unit_climate_data"
    /\ last.received = <<Response(200, ClimateErrorStatus)>>
    /\ last.outcome = Return(ClimateErrorStatus)

\* C4: authenticate fails with AuthenticationError("Authentication failed"),
\* and no client exists afterwards, on every status other than 200 and on every
\* 200 whose body status is not "ok"; it returns only on a 200 with status "ok".
AuthenticateRejects ==
    (last.op = "authenticate") =>
        /\ Len(last.received) = 1
        /\ LET r == last.received[1]
           IN  /\ (r.status # 200 \/ ~StatusOk(r.json)) =>
                     /\ last.outcome = Raise("AirPatrolAuthenticationError",
                                             "Authentication failed")
                     /\ ~constructed
               /\ Returned(last) => (r.status = 200 /\ StatusOk(r.json))
               /\ constructed <=> Returned(last)

\* a 200 login whose body status is not "ok" was refused
AuthenticateNotOkReached ==
    /\ last.op = "authenticate"
    /\ last.received = <<Response(200, LoginError)>>
    /\ last.outcome.kind = "raise"
    /\ ~constructed

\* C5: the client authenticate returns for a 200 login with status "ok" holds
\* the body's misc.accessToken, the id of the first entry of
\* entities.users.list, and a null cache.
AuthenticateClientFields ==
    (last.op = "authenticate" /\ Returned(last)) =>
        LET data == last.received[1].json
        IN  /\ last.received[1].status = 200 /\ StatusOk(data)
            /\ last.outcome.value.access_token = data.misc.accessToken
            /\ last.outcome.value.user_id = data.entities.users.list[1].id
            /\ last.outcome.value.pairings_cache = None
            /\ access_token = data.misc.accessToken
            /\ user_id = data.entities.users.list[1].id
            /\ (\A t \in Tasks : Idle(t)) => pairings_cache = None

\* the client of a login that listed two users holds the first
AuthenticatedReached ==
    /\ last.op = "authenticate" /\ Returned(last)
    /\ Len(last.received[1].json.entities.users.list) = 2
    /\ constructed /\ access_token = Str("tokB") /\ user_id = Str("u1")

\* The discovery document an invocation that starts with get_pairings worked on,
\* when it got one: the cache it found, or the 200 "ok" body it fetched.
HasData(entry) ==
    \/ entry.cache_at_call # None
    \/ /\ Len(entry.received) >= 1
       /\ entry.received[1].status = 200
       /\ StatusOk(entry.received[1].json)

DataOf(entry) ==
    IF entry.cache_at_call # None THEN entry.cache_at_call ELSE entry.received[1].json

\* C6: every record get_devices returns is a pairing of the document whose id
\* is the pairingId of an entry of pairingUser whose userId is the client's
\* user_id; when no entry is of that user the result is the empty sequence,
\* returned and not raised.
DevicesBelongToUser ==
    (last.op = "get_devices" /\ HasData(last)) =>
        LET entries == EntityList(DataOf(last), "pairingUser")
            pairings == EntityList(DataOf(last), "pairings")
            devices == last.outcome.value
        IN  /\ Returned(last)
            /\ \A k \in 1..Len(devices) :
                  /\ \E j \in 1..Len(pairings) : devices[k] = pairings[j]
                  /\ \E i \in 1..Len(entries) :
                        /\ Get(entries[i], "userId") = user_id
                        /\ Get(devices[k], "id") = Get(entries[i], "pairingId")
            /\ (\A i \in 1..Len(entries) : Get(entries[i], "userId") # user_id)
                  => devices = <<>>

\* a document with a pairing of another user only, and nothing returned
NoDevicesOfOtherUserReached ==
    /\ last.op = "get_devices" /\ Returned(last)
    /\ user_id = Str("u1")
    /\ DataOf(last) = Discovery(<<PairingUser(Str("u2"), Str("7"))>>,
                                <<[id |-> Str("7"), name |-> Str("A")]>>)
    /\ last.outcome.value = <<>>

\* C7: set_unit_climate_data issues one request: a POST to the command endpoint
\* whose body is the payload of the caller and whose headers are the bearer
\* token of the client and the unit id.
SetRequestCarriesPayload ==
    (last.op = "set_unit_climate_data") =>
        /\ Len(last.sent) = 1
        /\ last.sent[1].method = "POST"
        /\ last.sent[1].url = "https://api.apsrvd.io/12/command"
        /\ DOMAIN last.sent[1].kwargs = {"headers", "json"}
        /\ last.sent[1].kwargs.json = last.args[2]
        /\ DOMAIN last.sent[1].kwargs.headers = {"Authorization", "X-Pairing-Id"}
        /\ last.sent[1].kwargs.headers["Authorization"] =
              (IF access_token = None THEN "Bearer None" ELSE "Bearer " \o access_token.v)
        /\ last.sent[1].kwargs.headers["X-Pairing-Id"] = last.args[1].v

\* a payload sent for unit p2 with the token of the login
SetRequestReached ==
    /\ last.op = "set_unit_climate_data"
    /\ last.args = <<Str("p2"), [foo |-> Str("bar")]>>
    /\ access_token = Str("tokB")
    /\ Len(last.sent) = 1

DataOps == {"get_data", "get_units"}

HasStrId(device) == Get(device, "id").t = "str"

\* the devices get_devices resolves for the invocation, and those with a str id
ResolvedDevices(entry) == UserPairings(DataOf(entry), user_id)
StrDevices(entry) == SelectSeq(ResolvedDevices(entry), HasStrId)

\* the climate reads an invocation issued
IsCommandGet(req) == req.method = "GET" /\ req.url = "https://api.apsrvd.io/12/command"
Reads(entry) == SelectSeq(entry.sent, IsCommandGet)

AllSucceeded(entry) == \A k \in 1..Len(entry.received) : entry.received[k].status = 200

\* C8: when every request succeeds, get_data returns one snapshot for each
\* device of get_devices whose id is a str, in order, with that id as unit_id,
\* and issues one climate read for each of them and none for the others.
SnapshotPerStrDevice ==
    (last.op \in DataOps /\ HasData(last) /\ AllSucceeded(last)) =>
        LET strs == StrDevices(last)
        IN  /\ Returned(last)
            /\ Len(last.outcome.value) = Len(strs)
            /\ \A i \in 1..Len(strs) : last.outcome.value[i].unit_id = Get(strs[i], "id")
            /\ Len(Reads(last)) = Len(strs)
            /\ \A i \in 1..Len(strs) :
                  Reads(last)[i].kwargs.headers["X-Pairing-Id"] = Get(strs[i], "id").v

\* the failure a response makes the invocation end with, if it is one
IsFailure(entry, k) ==
    \/ entry.received[k].status # 200
    \/ k = 1 /\ entry.cache_at_call = None /\ ~StatusOk(entry.received[1].json)

FailureOf(entry, k) ==
    IF k = 1 /\ entry.cache_at_call = None
    THEN GetPairingsOutcome(entry.received[k])
    ELSE ClimateOutcome(entry.received[k], "fetch")

\* The climate reads of entry are for the first of the devices with a str id, in order.
ReadsInDeviceOrder(entry) ==
    /\ Len(Reads(entry)) <= Len(StrDevices(entry))
    /\ \A i \in 1..Len(Reads(entry)) :
          Reads(entry)[i].kwargs.headers["X-Pairing-Id"] = Get(StrDevices(entry)[i], "id").v

\* C9 as amended: get_data issues its climate reads one at a time, each after
\* the response to the request before it, for the resolved devices whose id is a
\* str, in device order; when it returns a list it has issued one read for each
\* of them; a failed discovery or read is the last response of the invocation,
\* which ends with that failure, returns no list and issues no later read.
DataReadsSequentialOrAbort ==
    /\ \A t \in Tasks :
          /\ Len(frame[t].sent) - Len(frame[t].received) \in {0, 1}
          /\ pc[t] # "idle" => Len(frame[t].sent) = Len(frame[t].received) + 1
    /\ (last.op \in DataOps) =>
          /\ Len(last.sent) = Len(last.received)
          /\ HasData(last) => ReadsInDeviceOrder(last)
          /\ ~HasData(last) => Reads(last) = <<>>
          /\ Returned(last) =>
                /\ HasData(last) /\ AllSucceeded(last)
                /\ Len(Reads(last)) = Len(StrDevices(last))
          /\ \A k \in 1..Len(last.received) :
                IsFailure(last, k) =>
                    /\ k = Len(last.received)
                    /\ last.outcome.kind = "raise"
                    /\ last.outcome = FailureOf(last, k)

\* C9 as stated: one climate read for every resolved device.
DataReadsOnePerResolvedDevice ==
    (last.op \in DataOps /\ Returned(last)) =>
        Len(Reads(last)) = Len(ResolvedDevices(last))

\* the read of the second device failed after the first succeeded: one more
\* device with a str id was left unread
DataAbortedReached ==
    /\ last.op = "get_data" /\ HasData(last)
    /\ Len(StrDevices(last)) = 2
    /\ Len(Reads(last)) = 2
    /\ last.received[Len(last.received)].status = 500
    /\ last.outcome = Raise("AirPatrolError", "Failed to fetch climate data: 500")

ExpectedModel(device) ==
    IF "type" \notin DOMAIN device THEN "AirPatrol UNKNOWN"
    ELSE CASE device.type.v = "apw" -> "AirPatrol APW"
           [] device.type.v = "Aph" -> "AirPatrol APH"
           [] device.type.v = "APC" -> "AirPatrol APC"
           [] OTHER -> "?"

\* C10: every snapshot get_data returns has manufacturer "AirPatrol", model
\* "AirPatrol " and the upper-cased type of its device ("Unknown" upper-cased
\* when the device has none), and the name of its device, or
\* "AirPatrol Device " and the unit id when the device has none.
SnapshotFields ==
    (last.op \in DataOps /\ Returned(last)) =>
        /\ Len(last.outcome.value) = Len(StrDevices(last))
        /\ \A i \in 1..Len(last.outcome.value) :
              LET unit == last.outcome.value[i]
                  device == StrDevices(last)[i]
              IN  /\ unit.manufacturer = Str("AirPatrol")
                  /\ unit.model = Str(ExpectedModel(device))
                  /\ unit.name = (IF "name" \in DOMAIN device THEN device.name
                                  ELSE Str("AirPatrol Device " \o unit.unit_id.v))

\* snapshots of a device with name and type and of a device with neither
SnapshotDefaultsReached ==
    /\ last.op = "get_data" /\ Returned(last)
    /\ Len(last.outcome.value) = 2
    /\ last.outcome.value[1].model = Str("AirPatrol APW")
    /\ last.outcome.value[1].name = Str("Living")
    /\ last.outcome.value[2].model = Str("AirPatrol UNKNOWN")
    /\ last.outcome.value[2].name = Str("AirPatrol Device p2")

\* C11: get_unique_id returns the stored user id when one is set and fails with
\* ValueError when none is; get_access_token returns the stored token, null or
\* not, and never fails; neither changes the client or issues a request.
AccessorsReadOnly ==
    [][ /\ Completes("get_unique_id") =>
              /\ client' = client
              /\ last'.sent = <<>> /\ last'.received = <<>>
              /\ user_id # None => last'.outcome = Return(user_id)
              /\ user_id = None =>
                    /\ last'.outcome.kind = "raise"
                    /\ last'.outcome.exc = "ValueError"
        /\ Completes("get_access_token") =>
              /\ client' = client
              /\ last'.sent = <<>> /\ last'.received = <<>>
              /\ last'.outcome = Return(access_token)
      ]_vars

\* get_unique_id failed on a client constructed with a token and no user id
UniqueIdMissingReached ==
    /\ last.op = "get_unique_id"
    /\ user_id = None /\ access_token = Str("tokA")
    /\ last.outcome.kind = "raise"

\* the entries of pairingUser that are of the client's user and have a pairing
\* of their pairingId, and for each the first pairing of that id
PairingsOfId(data, pairing_id) ==
    {j \in 1..Len(EntityList(data, "pairings")) :
        Get(EntityList(data, "pairings")[j], "id") = pairing_id}

MatchingEntries(data) ==
    {i \in 1..Len(EntityList(data, "pairingUser")) :
        Get(EntityList(data, "pairingUser")[i], "userId") = user_id}

ContributingEntries(data) ==
    {i \in MatchingEntries(data) :
        PairingsOfId(data, Get(EntityList(data, "pairingUser")[i], "pairingId")) # {}}

FirstPairingOf(data, i) ==
    LET js == PairingsOfId(data, Get(EntityList(data, "pairingUser")[i], "pairingId"))
    IN  EntityList(data, "pairings")[CHOOSE j \in js : \A j2 \in js : j <= j2]

\* C12: get_devices returns, in the order of the matching entries of
\* pairingUser, for each matching entry that has a pairing of its pairingId the
\* first such pairing of the pairings list, and nothing for the other entries.
DevicesFirstMatchInEntryOrder ==
    (last.op = "get_devices" /\ HasData(last)) =>
        LET data == DataOf(last)
            devices == last.outcome.value
            contributing == ContributingEntries(data)
        IN  /\ Returned(last)
            /\ Len(devices) = Cardinality(contributing)
            /\ Len(devices) <= Cardinality(MatchingEntries(data))
            /\ \A i \in contributing :
                  devices[Cardinality({i2 \in contributing : i2 <= i})]
                      = FirstPairingOf(data, i)

\* two pairings share the id of the one matching entry: the first in the list
\* is returned, and the entry without a pairing gives nothing
FirstOfDuplicatesReached ==
    /\ last.op = "get_devices" /\ Returned(last)
    /\ user_id = Str("u1")
    /\ DataOf(last) = Discovery(<<[userId |-> Str("u1")], PairingUser(Str("u1"), Str("7"))>>,
                                <<[id |-> Str("7"), name |-> Str("B")],
                                  [id |-> Str("7"), name |-> Str("A")]>>)
    /\ last.outcome.value = <<[id |-> Str("7"), name |-> Str("B")]>>

\* C13: get_pairings calls on one client are not serialised: every call that
\* found the cache null has its own request in flight, also while another call's
\* is, and a call that receives a 200 "ok" document stores and returns that
\* document, whatever another call stored meanwhile.
PairingsFetchesNotShared ==
    [][ /\ \A t \in Tasks : pc[t] = "pairings" =>
              /\ frame[t].cache_at_call = None
              /\ frame[t].sent = <<PairingsRequest>>
        /\ (Completes("get_pairings") /\ last'.cache_at_call = None) =>
              /\ last'.sent = <<PairingsRequest>>
              /\ Len(last'.received) = 1
              /\ Returned(last') =>
                    /\ last'.outcome.value = last'.received[1].json
                    /\ pairings_cache' = last'.received[1].json
      ]_vars

\* both calls found the cache null and each sent a request; the first stored
\* one document, the second then stored another over it
SecondStoreOverwroteReached ==
    /\ prev.op = "get_pairings" /\ prev.ok /\ prev.nreq = 1
    /\ last.op = "get_pairings" /\ last.cache_at_call = None
    /\ last.sent = <<PairingsRequest>>
    /\ last.received = <<Response(200, DocOther)>>
    /\ pairings_cache = DocOther

SingleRequestOps ==
    {"authenticate", "get_pairings", "get_devices",
     "get_unit_climate_data", "set_unit_climate_data"}

IsPairingsGet(req) == req = PairingsRequest

\* the requests of an invocation, running or ended, are within what its
\* operation may issue
RequestsWithin(entry) ==
    /\ entry.op \in SingleRequestOps => Len(entry.sent) <= 1
    /\ entry.op \in DataOps =>
          LET reads == Reads(entry)
              resolved == IF HasData(entry) THEN ResolvedDevices(entry) ELSE <<>>
          IN  /\ Len(SelectSeq(entry.sent, IsPairingsGet)) <= 1
              /\ Len(entry.sent) = Len(SelectSeq(entry.sent, IsPairingsGet)) + Len(reads)
              /\ Len(reads) <= Len(resolved)
              /\ \A k \in 1..Len(reads) :
                    LET u == reads[k].kwargs.headers["X-Pairing-Id"]
                    IN  Cardinality({k2 \in 1..Len(reads) :
                                        reads[k2].kwargs.headers["X-Pairing-Id"] = u})
                          <= Cardinality({i \in 1..Len(resolved) :
                                            Get(resolved[i], "id") = Str(u)})

\* C14: an invocation of authenticate, get_pairings, get_devices,
\* get_unit_climate_data or set_unit_climate_data issues at most one request,
\* whether it returns or raises; an invocation of get_data issues at most one
\* pairings request and at most one climate read for each device it resolved.
RequestsBounded ==
    /\ RequestsWithin(last)
    /\ \A t \in Tasks : pc[t] # "idle" => RequestsWithin(frame[t])

\* get_pairings failed on a 500 after the one request it sent
FailedAfterOneRequestReached ==
    /\ last.op = "get_pairings"
    /\ last.received = <<Response(500, DocHome)>>
    /\ last.outcome.kind = "raise"
    /\ last.sent = <<PairingsRequest>>

\* the step is of task t, which was awaiting the pairings document and got resp
ReceivesPairings(t, resp) ==
    /\ pc[t] = "pairings" /\ pc'[t] # "pairings"
    /\ resp = IF pc'[t] = "idle" THEN last'.received[1] ELSE frame'[t].received[1]

AcceptedPairings(resp) == resp.status = 200 /\ StatusOk(resp.json)

\* C15: the cache is null or a document with status "ok"; a step that changes
\* it is a clear_pairings_cache, which leaves it null, or the receipt by a
\* pairings fetch of a 200 response with an "ok" body, which leaves it that
\* body; the receipt of any other response by a pairings fetch leaves it as it was.
CacheOnlyFromAcceptedFetch ==
    [][ /\ pairings_cache # None => StatusOk(pairings_cache)
        /\ pairings_cache' # pairings_cache =>
              \/ Completes("clear_pairings_cache") /\ pairings_cache' = None
              \/ \E t \in Tasks, resp \in Responses(PairingsBodies, DocHome) :
                    /\ ReceivesPairings(t, resp)
                    /\ AcceptedPairings(resp)
                    /\ pairings_cache' = resp.json
        /\ \A t \in Tasks, resp \in Responses(PairingsBodies, DocHome) :
              (ReceivesPairings(t, resp) /\ ~AcceptedPairings(resp)) =>
                    pairings_cache' = pairings_cache
      ]_vars

\* get_data fetched the document, stored it, and then failed on a climate read:
\* the cache keeps the document of the failed invocation
CacheKeptAfterFailedReadReached ==
    /\ last.op = "get_data" /\ last.cache_at_call = None
    /\ last.received[1] = Response(200, DocHome)
    /\ last.outcome.kind = "raise"
    /\ pairings_cache = DocHome

====
